---- MODULE Spec2Model ----
(***************************************************************************)
(* Model of feedgen.ext.podcast_google.PodcstGoogleExtension: the ten      *)
(* private fields, their get/set accessors with validation, and the        *)
(* extend_rss renderer.                                                    *)
(*                                                                         *)
(* Python values are tagged records so that Python's truthiness, ==, `in`  *)
(* and `is` can be computed as the interpreter computes them (in           *)
(* particular 1 == True and 0 == False, while 1 is not True).              *)
(***************************************************************************)
EXTENDS Integers, Sequences, FiniteSets, TLC

VARIABLES
    self,    \* the extension instance: its ten __google_* fields
    call,    \* the most recent method invocation: [op, args]
    raised,  \* "" when that invocation returned, else the exception raised
    ret      \* the value that invocation returned (NoReturn when it raised)

vars == <<self, call, raised, ret>>

---------------------------------------------------------------------------
(* Python values *)

None == [ty |-> "none"]
Str(s) == [ty |-> "str", s |-> s]
Bool(b) == [ty |-> "bool", n |-> IF b THEN 1 ELSE 0]
PyInt(n) == [ty |-> "int", n |-> n]
PyFloat(n) == [ty |-> "float", n |-> n]
Dict(d) == [ty |-> "dict", d |-> d]
List(items) == [ty |-> "list", items |-> items]
NoReturn == [ty |-> "noreturn"]

True == Bool(TRUE)
False == Bool(FALSE)
EmptyDict == Dict([k \in {} |-> None])

IsNone(v) == v.ty = "none"
Numeric == {"bool", "int", "float"}

\* bool(v)
Truthy(v) ==
    CASE v.ty = "none" -> FALSE
      [] v.ty = "str" -> Len(v.s) > 0
      [] v.ty \in Numeric -> v.n # 0
      [] v.ty = "dict" -> DOMAIN v.d # {}
      [] v.ty = "list" -> Len(v.items) > 0
      [] OTHER -> TRUE

\* a == b : numbers (bool, int, float) compare by value across types
PyEq(a, b) ==
    IF a.ty \in Numeric /\ b.ty \in Numeric
    THEN a.n = b.n
    ELSE a.ty = b.ty /\ a = b

\* a is b, for the singletons None, True and False
PyIs(a, b) == a.ty = b.ty /\ a = b

\* v in (t1, ..., tn)
PyIn(v, tuple) == \E i \in 1..Len(tuple) : PyEq(v, tuple[i])

\* d.get(k)
Get(dict, k) == IF k \in DOMAIN dict.d THEN dict.d[k] ELSE None

\* s.endswith(suffix), on strings held as sequences of characters
endswith(s, suffix) ==
    /\ Len(s) >= Len(suffix)
    /\ SubSeq(s, Len(s) - Len(suffix) + 1, Len(s)) = suffix

dot_jpg == <<".", "j", "p", "g">>
dot_png == <<".", "p", "n", "g">>

---------------------------------------------------------------------------
(* Outcome of a method call: the instance afterwards, the exception raised *)
(* ("" for none) and the value returned.                                   *)

Returns(s, r) == [self |-> s, raised |-> "", ret |-> r]
Raises(s, exc) == [self |-> s, raised |-> exc, ret |-> NoReturn]

\* __init__
NewExtension ==
    [google_author |-> None,
     google_block |-> None,
     google_category |-> None,
     google_image |-> None,
     google_explicit |-> None,
     google_complete |-> None,
     google_new_feed_url |-> None,
     google_owner |-> None,
     google_subtitle |-> None,
     google_summary |-> None]

GOOGLE_NS == "http://www.google.com/schemas/play-podcasts/1.0"

extend_ns(s) == Returns(s, Dict([googleplay |-> Str(GOOGLE_NS)]))

google_author(s, google_author_arg) ==
    LET s2 == IF ~IsNone(google_author_arg)
              THEN [s EXCEPT !.google_author = google_author_arg]
              ELSE s
    IN Returns(s2, s2.google_author)

google_block(s, google_block_arg) ==
    LET s2 == IF ~IsNone(google_block_arg)
              THEN [s EXCEPT !.google_block = google_block_arg]
              ELSE s
    IN Returns(s2, s2.google_block)

\* google_image storing every string, whatever its ending
google_image_any(s, google_image_arg) ==
    IF ~IsNone(google_image_arg)
    THEN IF google_image_arg.ty # "str"
         THEN Raises(s, "AttributeError")
         ELSE Returns([s EXCEPT !.google_image = google_image_arg],
                      google_image_arg)
    ELSE Returns(s, s.google_image)

google_image(s, google_image_arg) ==
    IF ~IsNone(google_image_arg)
    THEN IF google_image_arg.ty # "str"
         THEN Raises(s, "AttributeError")
         ELSE IF endswith(google_image_arg.s, dot_jpg)
                 \/ endswith(google_image_arg.s, dot_png)
              THEN Returns([s EXCEPT !.google_image = google_image_arg],
                           google_image_arg)
              ELSE Returns(s, s.google_image)
    ELSE Returns(s, s.google_image)

explicit_values == <<Str(""), Str("yes"), Str("no"), Str("clean")>>

google_explicit(s, google_explicit_arg) ==
    IF ~IsNone(google_explicit_arg)
    THEN IF ~PyIn(google_explicit_arg, explicit_values)
         THEN Raises(s, "ValueError")
         ELSE Returns([s EXCEPT !.google_explicit = google_explicit_arg],
                      google_explicit_arg)
    ELSE Returns(s, s.google_explicit)

complete_values == <<Str("yes"), Str("no"), Str(""), True, False>>

google_complete(s, google_complete_arg) ==
    IF ~IsNone(google_complete_arg)
    THEN IF ~PyIn(google_complete_arg, complete_values)
         THEN Raises(s, "ValueError")
         ELSE LET c1 == IF PyIs(google_complete_arg, True)
                        THEN Str("yes")
                        ELSE google_complete_arg
                  c2 == IF PyIs(c1, False) THEN Str("no") ELSE c1
              IN Returns([s EXCEPT !.google_complete = c2], c2)
    ELSE Returns(s, s.google_complete)

google_new_feed_url(s, google_new_feed_url_arg) ==
    LET s2 == IF ~IsNone(google_new_feed_url_arg)
              THEN [s EXCEPT !.google_new_feed_url = google_new_feed_url_arg]
              ELSE s
    IN Returns(s2, s2.google_new_feed_url)

\* google_owner storing the record as soon as either argument is given
google_owner_either(s, name, email) ==
    IF ~IsNone(name)
    THEN IF Truthy(name) \/ Truthy(email)
         THEN LET o == Dict([name |-> name, email |-> email])
              IN Returns([s EXCEPT !.google_owner = o], o)
         ELSE Returns([s EXCEPT !.google_owner = None], None)
    ELSE Returns(s, s.google_owner)

google_owner(s, name, email) ==
    IF ~IsNone(name)
    THEN IF Truthy(name) /\ Truthy(email)
         THEN LET o == Dict([name |-> name, email |-> email])
              IN Returns([s EXCEPT !.google_owner = o], o)
         ELSE IF ~Truthy(name) /\ ~Truthy(email)
              THEN Returns([s EXCEPT !.google_owner = None], None)
              ELSE Raises(s, "ValueError")
    ELSE Returns(s, s.google_owner)

google_subtitle(s, google_subtitle_arg) ==
    LET s2 == IF ~IsNone(google_subtitle_arg)
              THEN [s EXCEPT !.google_subtitle = google_subtitle_arg]
              ELSE s
    IN Returns(s2, s2.google_subtitle)

\* google_summary writing the subtitle field
google_summary_into_subtitle(s, google_summary_arg) ==
    LET s2 == IF ~IsNone(google_summary_arg)
              THEN [s EXCEPT !.google_subtitle = google_summary_arg]
              ELSE s
    IN Returns(s2, s2.google_summary)

google_summary(s, google_summary_arg) ==
    LET s2 == IF ~IsNone(google_summary_arg)
              THEN [s EXCEPT !.google_summary = google_summary_arg]
              ELSE s
    IN Returns(s2, s2.google_summary)

---------------------------------------------------------------------------
(* google_category and the normalisation it delegates to *)

RECURSIVE select_entries(_, _, _)
\* the entries of elems, each cut down to the allowed keys, that carry a
\* non-empty value under every required key; the others are left out
select_entries(elems, allowed, required) ==
    IF elems = <<>>
    THEN <<>>
    ELSE LET elem == Head(elems)
             cut == Dict([k \in DOMAIN elem.d \cap allowed |-> elem.d[k]])
             rest == select_entries(Tail(elems), allowed, required)
         IN IF \A k \in required : Truthy(Get(cut, k))
            THEN <<cut>> \o rest
            ELSE rest

\* feedgen.util.ensure_format(val, allowed, required): one mapping or a list
\* of mappings, normalised to a list of mappings
ensure_format(val, allowed, required) ==
    select_entries(IF val.ty = "list" THEN val.items ELSE <<val>>,
                   allowed, required)

\* google_category never clearing the stored list, replace or not
google_category_keep(s, google_category_arg, replace_arg, kwargs) ==
    LET legacy == google_category_arg.ty = "str"
        gc1 == IF legacy
               THEN IF Truthy(replace_arg)
                    THEN Dict([cat |-> google_category_arg, sub |-> replace_arg])
                    ELSE Dict([cat |-> google_category_arg])
               ELSE google_category_arg
        gc2 == IF IsNone(gc1) /\ Truthy(kwargs) THEN kwargs ELSE gc1
    IN IF ~IsNone(gc2)
       THEN LET base == IF IsNone(s.google_category)
                        THEN <<>>
                        ELSE s.google_category.items
                new == List(base \o ensure_format(gc2, {"cat", "sub"}, {"cat"}))
            IN Returns([s EXCEPT !.google_category = new], new)
       ELSE Returns(s, s.google_category)

\* google_category without the legacy form's "replace = True"
google_category_legacy_append(s, google_category_arg, replace_arg, kwargs) ==
    LET legacy == google_category_arg.ty = "str"
        gc1 == IF legacy
               THEN IF Truthy(replace_arg)
                    THEN Dict([cat |-> google_category_arg, sub |-> replace_arg])
                    ELSE Dict([cat |-> google_category_arg])
               ELSE google_category_arg
        gc2 == IF IsNone(gc1) /\ Truthy(kwargs) THEN kwargs ELSE gc1
    IN IF ~IsNone(gc2)
       THEN LET base == IF Truthy(replace_arg) \/ IsNone(s.google_category)
                        THEN <<>>
                        ELSE s.google_category.items
                new == List(base \o ensure_format(gc2, {"cat", "sub"}, {"cat"}))
            IN Returns([s EXCEPT !.google_category = new], new)
       ELSE Returns(s, s.google_category)

\* google_category appending the value as given, without ensure_format
google_category_raw(s, google_category_arg, replace_arg, kwargs) ==
    LET legacy == google_category_arg.ty = "str"
        gc1 == IF legacy
               THEN IF Truthy(replace_arg)
                    THEN Dict([cat |-> google_category_arg, sub |-> replace_arg])
                    ELSE Dict([cat |-> google_category_arg])
               ELSE google_category_arg
        replace == IF legacy THEN True ELSE replace_arg
        gc2 == IF IsNone(gc1) /\ Truthy(kwargs) THEN kwargs ELSE gc1
    IN IF ~IsNone(gc2)
       THEN LET base == IF Truthy(replace) \/ IsNone(s.google_category)
                        THEN <<>>
                        ELSE s.google_category.items
                new == List(base \o (IF gc2.ty = "list" THEN gc2.items ELSE <<gc2>>))
            IN Returns([s EXCEPT !.google_category = new], new)
       ELSE Returns(s, s.google_category)

google_category(s, google_category_arg, replace_arg, kwargs) ==
    LET legacy == google_category_arg.ty = "str"
        gc1 == IF legacy
               THEN IF Truthy(replace_arg)
                    THEN Dict([cat |-> google_category_arg, sub |-> replace_arg])
                    ELSE Dict([cat |-> google_category_arg])
               ELSE google_category_arg
        replace == IF legacy THEN True ELSE replace_arg
        gc2 == IF IsNone(gc1) /\ Truthy(kwargs) THEN kwargs ELSE gc1
    IN IF ~IsNone(gc2)
       THEN LET base == IF Truthy(replace) \/ IsNone(s.google_category)
                        THEN <<>>
                        ELSE s.google_category.items
                new == List(base \o ensure_format(gc2, {"cat", "sub"}, {"cat"}))
            IN Returns([s EXCEPT !.google_category = new], new)
       ELSE Returns(s, s.google_category)

---------------------------------------------------------------------------
(* XML elements and extend_rss *)

NoAttrib == [k \in {} |-> None]
Elem(tag) == [tag |-> tag, text |-> None, attrib |-> NoAttrib, children |-> <<>>]

\* '{%s}local' % GOOGLE_NS
QName(local) == "{" \o GOOGLE_NS \o "}" \o local

\* feedgen.util.xml_elem(name, parent): a new, empty element appended as the
\* last child of parent (it is then parent.children[Len(parent.children)])
xml_elem(name, parent) == [parent EXCEPT !.children = Append(@, Elem(name))]

\* child.text = v and child.attrib[k] = v on the child just created
set_text(parent, v) ==
    [parent EXCEPT !.children[Len(parent.children)].text = v]
set_attrib(parent, k, v) ==
    [parent EXCEPT !.children[Len(parent.children)].attrib =
        [x \in DOMAIN @ \cup {k} |-> IF x = k THEN v ELSE @[x]]]

\* find never matching: every entry gets a top-level element of its own
find_category_none(channel, cat) == 0

\* channel.find('{ns}category[@text="cat"]'): the index of the first child of
\* channel with that tag and that value of the text attribute, 0 for no match
find_category(channel, cat) ==
    LET hits == {i \in 1..Len(channel.children) :
                    /\ channel.children[i].tag = QName("category")
                    /\ "text" \in DOMAIN channel.children[i].attrib
                    /\ channel.children[i].attrib["text"] = cat}
    IN IF hits = {} THEN 0 ELSE CHOOSE i \in hits : \A j \in hits : i <= j

\* one pass of the loop over self.__google_category
render_category(channel, c) ==
    IF ~Truthy(Get(c, "cat"))
    THEN channel
    ELSE LET found == find_category(channel, Get(c, "cat"))
             ch1 == IF found = 0
                    THEN set_attrib(xml_elem(QName("category"), channel),
                                    "text", Get(c, "cat"))
                    ELSE channel
             idx == IF found = 0 THEN Len(ch1.children) ELSE found
         IN IF Truthy(Get(c, "sub"))
            THEN [ch1 EXCEPT !.children[idx] =
                     set_attrib(xml_elem(QName("category"), @),
                                "text", Get(c, "sub"))]
            ELSE ch1

RECURSIVE render_categories(_, _)
render_categories(channel, cats) ==
    IF cats = <<>>
    THEN channel
    ELSE render_categories(render_category(channel, Head(cats)), Tail(cats))

render_author(s, channel) ==
    IF Truthy(s.google_author)
    THEN set_text(xml_elem(QName("author"), channel), s.google_author)
    ELSE channel

\* the block element written only for a true value
render_block_truthy(s, channel) ==
    IF Truthy(s.google_block)
    THEN set_text(xml_elem(QName("block"), channel), Str("yes"))
    ELSE channel

render_block(s, channel) ==
    IF ~IsNone(s.google_block)
    THEN set_text(xml_elem(QName("block"), channel),
                  IF Truthy(s.google_block) THEN Str("yes") ELSE Str("no"))
    ELSE channel

render_image(s, channel) ==
    IF Truthy(s.google_image)
    THEN set_attrib(xml_elem(QName("image"), channel), "href", s.google_image)
    ELSE channel

render_explicit(s, channel) ==
    IF PyIn(s.google_explicit, <<Str("yes"), Str("no"), Str("clean")>>)
    THEN set_text(xml_elem(QName("explicit"), channel), s.google_explicit)
    ELSE channel

render_complete(s, channel) ==
    IF PyIn(s.google_complete, <<Str("yes"), Str("no")>>)
    THEN set_text(xml_elem(QName("complete"), channel), s.google_complete)
    ELSE channel

render_new_feed_url(s, channel) ==
    IF Truthy(s.google_new_feed_url)
    THEN set_text(xml_elem(QName("new-feed-url"), channel), s.google_new_feed_url)
    ELSE channel

render_owner(s, channel) ==
    IF Truthy(s.google_owner)
    THEN LET o0 == Elem(QName("owner"))
             o1 == set_text(xml_elem(QName("name"), o0),
                            Get(s.google_owner, "name"))
             o2 == set_text(xml_elem(QName("email"), o1),
                            Get(s.google_owner, "email"))
         IN [channel EXCEPT !.children = Append(@, o2)]
    ELSE channel

render_subtitle(s, channel) ==
    IF Truthy(s.google_subtitle)
    THEN set_text(xml_elem(QName("subtitle"), channel), s.google_subtitle)
    ELSE channel

render_summary(s, channel) ==
    IF Truthy(s.google_summary)
    THEN set_text(xml_elem(QName("summary"), channel), s.google_summary)
    ELSE channel

extend_rss(s, rss_feed) ==
    LET channel == rss_feed.children[1]
        c1 == render_author(s, channel)
        c2 == render_block(s, c1)
        c3 == render_categories(c2, IF Truthy(s.google_category)
                                    THEN s.google_category.items
                                    ELSE <<>>)
        c4 == render_image(s, c3)
        c5 == render_explicit(s, c4)
        c6 == render_complete(s, c5)
        c7 == render_new_feed_url(s, c6)
        c8 == render_owner(s, c7)
        c9 == render_subtitle(s, c8)
        c10 == render_summary(s, c9)
    IN Returns(s, [rss_feed EXCEPT !.children[1] = c10])

---------------------------------------------------------------------------
(* Inputs *)

MaxCats == 3       \* longest stored category list

Chars(w) == [ty |-> "str", s |-> w]
a_jpg == Chars(<<"a", ".", "j", "p", "g">>)
b_png == Chars(<<"b", ".", "p", "n", "g">>)
only_jpg == Chars(dot_jpg)
a_gif == Chars(<<"a", ".", "g", "i", "f">>)
jpg_noext == Chars(<<"j", "p", "g">>)
a_JPG == Chars(<<"a", ".", "J", "P", "G">>)
a_jpg_bak == Chars(<<"a", ".", "j", "p", "g", "~">>)
empty_chars == Chars(<<>>)

\* feeds handed in by the host: an rss root whose first child is the channel,
\* which holds no element of the googleplay namespace yet
HostTitle == [Elem("title") EXCEPT !.text = Str("My podcast")]
Feed(channel_children) ==
    [Elem("rss") EXCEPT !.children =
        <<[Elem("channel") EXCEPT !.children = channel_children]>>]
FreshFeeds == {Feed(<<>>), Feed(<<HostTitle>>)}

Arts == Str("Arts")
Tech == Str("Technology")
Design == Str("Design")
Food == Str("Food")
Entry(cat, sub) == Dict([cat |-> cat, sub |-> sub])
CatOnly(cat) == Dict([cat |-> cat])
SubOnly(sub) == Dict([sub |-> sub])
WithUrl(cat) == Dict([cat |-> cat, url |-> Str("http://x")])

---------------------------------------------------------------------------
(* Actions: one per method *)

Invoke(op, args, out) ==
    /\ self' = out.self
    /\ raised' = out.raised
    /\ ret' = out.ret
    /\ call' = [op |-> op, args |-> args]

Call_extend_ns == Invoke("extend_ns", <<>>, extend_ns(self))

Call_extend_rss ==
    \E rss_feed \in FreshFeeds \cup
                    (IF call.op = "extend_rss" /\ call.args[1] \in FreshFeeds
                     THEN {ret} ELSE {}) :
        Invoke("extend_rss", <<rss_feed>>, extend_rss(self, rss_feed))

Call_google_author(Args) ==
    \E v \in Args : Invoke("google_author", <<v>>, google_author(self, v))

Call_google_block(Args) ==
    \E v \in Args : Invoke("google_block", <<v>>, google_block(self, v))

Call_google_category(Calls, max) ==
    \E c \in Calls :
        LET out == google_category(self, c[1], c[2], c[3])
        IN /\ IF IsNone(out.self.google_category)
              THEN TRUE
              ELSE Len(out.self.google_category.items) <= max
           /\ Invoke("google_category", c, out)

Call_google_image(Args) ==
    \E v \in Args : Invoke("google_image", <<v>>, google_image(self, v))

Call_google_explicit(Args) ==
    \E v \in Args : Invoke("google_explicit", <<v>>, google_explicit(self, v))

Call_google_complete(Args) ==
    \E v \in Args : Invoke("google_complete", <<v>>, google_complete(self, v))

Call_google_new_feed_url(Args) ==
    \E v \in Args :
        Invoke("google_new_feed_url", <<v>>, google_new_feed_url(self, v))

Call_google_owner(Names, Emails) ==
    \E name \in Names, email \in Emails :
        Invoke("google_owner", <<name, email>>, google_owner(self, name, email))

Call_google_subtitle(Args) ==
    \E v \in Args : Invoke("google_subtitle", <<v>>, google_subtitle(self, v))

Call_google_summary(Args) ==
    \E v \in Args : Invoke("google_summary", <<v>>, google_summary(self, v))

Init ==
    /\ self = NewExtension
    /\ call = [op |-> "__init__", args |-> <<>>]
    /\ raised = ""
    /\ ret = None

---------------------------------------------------------------------------
(* Spec: the whole extension, every method, a few arguments each *)

AllCategoryCalls ==
    {<<None, False, EmptyDict>>,
     <<CatOnly(Tech), True, EmptyDict>>,
     <<List(<<Entry(Arts, Design), CatOnly(Tech)>>), True, EmptyDict>>}

Next ==
    \/ Call_extend_ns
    \/ Call_extend_rss
    \/ Call_google_author({None, Str(""), Str("Bob")})
    \/ Call_google_block({None, True, False})
    \/ Call_google_category(AllCategoryCalls, MaxCats)
    \/ Call_google_image({None, a_jpg, a_gif})
    \/ Call_google_explicit({None, Str("yes"), Str("maybe")})
    \/ Call_google_complete({None, True, PyInt(2)})
    \/ Call_google_new_feed_url({None, Str("http://new")})
    \/ Call_google_owner({None, Str("Alice")}, {None, Str("a@example.com")})
    \/ Call_google_subtitle({None, Str("Sub")})
    \/ Call_google_summary({None, Str("Sum")})

Spec == Init /\ [][Next]_vars

---------------------------------------------------------------------------
(* SpecScalar: the validated scalar fields, arguments of every type *)

EnumArgs ==
    {None, Str(""), Str("yes"), Str("no"), Str("clean"), Str("maybe"), Str("Yes"),
     True, False, PyInt(0), PyInt(1), PyInt(2), PyFloat(1)}

OwnerNames == {None, Str(""), Str("Alice"), Str("Bob"), False, PyInt(0)}
OwnerEmails == {None, Str(""), Str("a@example.com"), Str("b@example.com"), PyInt(0)}

ImageArgs ==
    {None, a_jpg, b_png, only_jpg, a_gif, jpg_noext, a_JPG, a_jpg_bak,
     empty_chars, PyInt(7)}

NextScalar ==
    \/ Call_google_explicit(EnumArgs)
    \/ Call_google_complete(EnumArgs)
    \/ Call_google_owner(OwnerNames, OwnerEmails)
    \/ Call_google_image(ImageArgs)
    \/ Call_extend_rss

SpecScalar == Init /\ [][NextScalar]_vars

---------------------------------------------------------------------------
(* SpecCat: google_category in all its call shapes, and the renderer *)

Mappings ==
    {EmptyDict, CatOnly(Arts), Entry(Arts, Design), Entry(Arts, Food),
     Entry(Tech, Design), Entry(Arts, Str("")), Entry(Str(""), Design),
     SubOnly(Food), WithUrl(Tech)}

Sequences ==
    {List(<<>>),
     List(<<Entry(Arts, Design), Entry(Arts, Food)>>),
     List(<<Entry(Tech, Design), SubOnly(Food), CatOnly(Arts)>>),
     List(<<Entry(Str(""), Design), Entry(Arts, Design)>>),
     List(<<WithUrl(Tech), Entry(Arts, Design)>>)}

LegacyCats == {Arts, Tech, Str("")}
LegacySubs == {False, Str(""), Design, Food}
Keywords == {CatOnly(Tech), Entry(Arts, Food), SubOnly(Design)}

CategoryCalls ==
    {<<v, r, EmptyDict>> : v \in Mappings \cup Sequences, r \in {False, True}}
    \cup {<<c, s, EmptyDict>> : c \in LegacyCats, s \in LegacySubs}
    \cup {<<None, r, k>> : r \in {False, True}, k \in Keywords \cup {EmptyDict}}

NextCat ==
    \/ Call_google_category(CategoryCalls, MaxCats)
    \/ Call_extend_rss

SpecCat == Init /\ [][NextCat]_vars

---------------------------------------------------------------------------
(* Claims on the validated scalar fields (SpecScalar) *)

Arg1 == call.args[1]

ExplicitEnum == {Str(""), Str("yes"), Str("no"), Str("clean")}
CompleteEnum == {Str(""), Str("yes"), Str("no")}

\* C1: in every reachable state the stored explicit value is absent or one of
\* "", "yes", "no", "clean", and the stored complete value is absent or one
\* of the strings "", "yes", "no".
C1_EnumFieldsHoldOnlyEnumValues ==
    /\ self.google_explicit \in {None} \cup ExplicitEnum
    /\ self.google_complete \in {None} \cup CompleteEnum

IsBoolean(v) == v.ty = "bool"

C2_Step ==
    /\ (call'.op = "google_explicit" /\ ~IsNone(Arg1'))
        => IF Arg1' \in ExplicitEnum
           THEN /\ raised' = ""
                /\ google_explicit(self', None).ret = Arg1'
           ELSE /\ raised' = "ValueError"
                /\ self'.google_explicit = self.google_explicit
    /\ (call'.op = "google_complete" /\ ~IsNone(Arg1')
            /\ ~(Arg1' \in CompleteEnum \/ IsBoolean(Arg1')))
        => /\ raised' = "ValueError"
           /\ self'.google_complete = self.google_complete

\* C2: google_explicit(v) with v in {"", "yes", "no", "clean"} succeeds and a
\* following google_explicit() returns v; with any other non-absent v it
\* fails with a validation error and the stored value is as before; and
\* google_complete(v) with v outside {"", "yes", "no", true, false} fails
\* with a validation error and leaves the stored complete value as before.
C2_EnumSettersValidate == [][C2_Step]_vars

OwnerWellFormed(o) ==
    IF IsNone(o)
    THEN TRUE
    ELSE /\ o.ty = "dict"
         /\ DOMAIN o.d = {"name", "email"}
         /\ Truthy(o.d["name"])
         /\ Truthy(o.d["email"])

C3_Step ==
    /\ OwnerWellFormed(self'.google_owner)
    /\ call'.op = "google_owner"
        => LET name == call'.args[1]
               email == call'.args[2]
           IN IF IsNone(name)
              THEN raised' = "" /\ self'.google_owner = self.google_owner
              ELSE IF Truthy(name) /\ Truthy(email)
              THEN /\ raised' = ""
                   /\ self'.google_owner.d = [name |-> name, email |-> email]
              ELSE IF ~Truthy(name) /\ ~Truthy(email)
              THEN raised' = "" /\ IsNone(self'.google_owner)
              ELSE /\ raised' = "ValueError"
                   /\ self'.google_owner = self.google_owner

\* C3: the stored owner is always absent or a record with a non-empty name
\* and a non-empty email; google_owner(name, email) with both non-empty
\* stores {name, email}; with name present and both empty it clears the
\* owner; with name present and exactly one of the two empty it fails with
\* a validation error and leaves the owner as it was; with name absent it
\* changes nothing.
C3_OwnerNeverHalfPopulated == [][C3_Step]_vars

\* a failed google_owner call that left a previously stored owner in place
C3_Witness ==
    /\ call.op = "google_owner"
    /\ raised = "ValueError"
    /\ ~IsNone(self.google_owner)
    /\ Truthy(call.args[1])

HasImageEnding(w) ==
    /\ Len(w) >= 4
    /\ <<w[Len(w) - 3], w[Len(w) - 2], w[Len(w) - 1], w[Len(w)]>>
          \in {dot_jpg, dot_png}

ImageWellFormed(v) ==
    IF IsNone(v) THEN TRUE ELSE v.ty = "str" /\ HasImageEnding(v.s)

ChannelOf(feed) == feed.children[1]

ImageElements(feed) ==
    {i \in 1..Len(ChannelOf(feed).children) :
        ChannelOf(feed).children[i].tag = QName("image")}

C9_Step ==
    /\ ImageWellFormed(self'.google_image)
    /\ (call'.op = "google_image" /\ Arg1'.ty = "str")
        => /\ raised' = ""
           /\ ret' = self'.google_image
           /\ self'.google_image =
                 IF HasImageEnding(Arg1'.s) THEN Arg1' ELSE self.google_image
    /\ call'.op = "extend_rss"
        => \A i \in ImageElements(ret') :
              HasImageEnding(ChannelOf(ret').children[i].attrib["href"].s)

\* C9: the stored image is always absent or a string ending in ".jpg" or
\* ".png"; google_image(v) stores v when v has such an ending and otherwise
\* keeps (and returns) the prior value; a render never emits an image
\* element whose href has another ending.
C9_ImageKeepsJpgOrPng == [][C9_Step]_vars

\* a rejected image string that left the stored image in place
C9_Witness ==
    /\ call.op = "google_image"
    /\ call.args[1] = a_gif
    /\ self.google_image = a_jpg
    /\ ret = a_jpg

---------------------------------------------------------------------------
(* Claims on the category list and its rendering (SpecCat) *)

Stored(s) == IF IsNone(s.google_category) THEN <<>> ELSE s.google_category.items

OnFreshFeed == call.op = "extend_rss" /\ call.args[1] \in FreshFeeds

\* the elements a render appended to the channel it was given
Appended ==
    LET before == ChannelOf(call.args[1]).children
        after == ChannelOf(ret).children
    IN SubSeq(after, Len(before) + 1, Len(after))

TextOf(e) == e.attrib["text"]

FirstIndex(entries, cat) ==
    CHOOSE i \in 1..Len(entries) :
        /\ Get(entries[i], "cat") = cat
        /\ \A j \in 1..(i - 1) : Get(entries[j], "cat") # cat

RECURSIVE SubsOf(_, _)
\* the non-empty subs of the entries under cat, in the entries' order
SubsOf(entries, cat) ==
    IF entries = <<>>
    THEN <<>>
    ELSE (IF Get(Head(entries), "cat") = cat /\ Truthy(Get(Head(entries), "sub"))
          THEN <<Get(Head(entries), "sub")>>
          ELSE <<>>) \o SubsOf(Tail(entries), cat)

\* C5: a single extend_rss on a fresh channel produces exactly one top-level
\* category element per distinct cat of the stored list, in first-seen
\* order, and each holds one child category element for every stored entry
\* of that cat that has a (non-empty) sub, in the entries' insertion order.
C5_CategoriesGroupedByCat ==
    OnFreshFeed =>
        LET entries == Stored(self)
            elems == Appended
        IN /\ \A i \in 1..Len(elems) : elems[i].tag = QName("category")
           /\ {TextOf(elems[i]) : i \in 1..Len(elems)}
                 = {Get(entries[k], "cat") : k \in 1..Len(entries)}
           /\ \A i, j \in 1..Len(elems) :
                 i < j => FirstIndex(entries, TextOf(elems[i]))
                            < FirstIndex(entries, TextOf(elems[j]))
           /\ \A i \in 1..Len(elems) :
                 /\ \A m \in 1..Len(elems[i].children) :
                       elems[i].children[m].tag = QName("category")
                 /\ [m \in 1..Len(elems[i].children) |->
                        TextOf(elems[i].children[m])]
                       = SubsOf(entries, TextOf(elems[i]))

\* Arts/Design then Arts/Food rendered as one Arts element with two children
C5_Witness ==
    /\ OnFreshFeed
    /\ Len(Stored(self)) = 3
    /\ SubSeq(Stored(self), 1, 2) = <<Entry(Arts, Design), Entry(Arts, Food)>>
    /\ Len(Appended[1].children) >= 2

\* the entries of a mapping or a sequence of mappings, normalised: cut down
\* to the keys cat and sub, those without a non-empty cat left out
Entries(v) == IF v.ty = "list" THEN v.items ELSE <<v>>
HasCat(e) == Truthy(Get(e, "cat"))
Normalized(v) ==
    LET kept == SelectSeq(Entries(v), HasCat)
    IN [i \in 1..Len(kept) |->
           Dict([k \in DOMAIN kept[i].d \cap {"cat", "sub"} |-> kept[i].d[k]])]

C6_Step ==
    (call'.op = "google_category" /\ call'.args[1].ty \in {"dict", "list"})
        => /\ raised' = ""
           /\ ret' = self'.google_category
           /\ Stored(self') =
                 IF call'.args[2] = True
                 THEN Normalized(call'.args[1])
                 ELSE Stored(self) \o Normalized(call'.args[1])

\* C6: for every prior list L and every mapping or sequence of mappings v,
\* google_category(v, replace=true) leaves the stored list equal to the
\* normalized entries of v, google_category(v) leaves it equal to L followed
\* by the normalized entries of v, and the call returns the stored list.
C6_ReplaceOrAppend == [][C6_Step]_vars

\* an appending call with a three-entry sequence, one entry of it dropped
C6_Witness ==
    /\ call.op = "google_category"
    /\ call.args[1] = List(<<Entry(Tech, Design), SubOnly(Food), CatOnly(Arts)>>)
    /\ call.args[2] = False
    /\ Len(Stored(self)) = 3
    /\ raised = ""

SameOutcome(out) ==
    /\ self' = out.self
    /\ raised' = out.raised
    /\ ret' = out.ret

LegacyCall == call'.op = "google_category" /\ call'.args[1].ty = "str"

C7_Original_Step ==
    LegacyCall =>
        IF call'.args[2].ty = "str"
        THEN SameOutcome(google_category(
                 self, Entry(call'.args[1], call'.args[2]), True, EmptyDict))
        ELSE SameOutcome(google_category(
                 self, CatOnly(call'.args[1]), True, EmptyDict))

\* C7 as claimed: the legacy call google_category(c, s) with strings c and s
\* leaves the same state and returns the same list as
\* google_category({cat: c, sub: s}, replace=true), and the legacy form
\* replaces the list also when no subcategory is given.
C7_LegacyEqualsMappingReplace == [][C7_Original_Step]_vars

C7_Step ==
    LegacyCall =>
        IF call'.args[2].ty = "str" /\ call'.args[2] # Str("")
        THEN SameOutcome(google_category(
                 self, Entry(call'.args[1], call'.args[2]), True, EmptyDict))
        ELSE SameOutcome(google_category(
                 self, CatOnly(call'.args[1]), True, EmptyDict))

\* C7 amended: the legacy call google_category(c, s) with a non-empty string
\* s leaves the same state and returns the same list as
\* google_category({cat: c, sub: s}, replace=true); with s empty or not
\* given it does so as google_category({cat: c}, replace=true), the stored
\* entry carrying no sub at all.  The legacy form always replaces.
C7_LegacyEqualsMappingReplaceNonEmptySub == [][C7_Step]_vars

\* a legacy call with a subcategory
C7_Witness ==
    /\ call.op = "google_category"
    /\ call.args = <<Arts, Design, EmptyDict>>
    /\ Stored(self) = <<Entry(Arts, Design)>>
    /\ ret = self.google_category

\* the entries a call hands to the normalisation, whatever its call shape
GivenEntries(args) ==
    IF args[1].ty = "str"
    THEN <<Dict([cat |-> args[1]])>>
    ELSE IF IsNone(args[1])
    THEN (IF Truthy(args[3]) THEN <<args[3]>> ELSE <<>>)
    ELSE Entries(args[1])

CatsOf(entries) == [i \in 1..Len(entries) |-> Get(entries[i], "cat")]

C8_Step ==
    /\ \A i \in 1..Len(Stored(self')) : HasCat(Stored(self')[i])
    /\ call'.op = "google_category"
        => LET given == SelectSeq(GivenEntries(call'.args), HasCat)
               now == Stored(self')
           IN /\ raised' = ""
              /\ Len(now) >= Len(given)
              /\ CatsOf(SubSeq(now, Len(now) - Len(given) + 1, Len(now)))
                    = CatsOf(given)

\* C8: every entry of the stored category list has a non-empty cat; a call
\* in any form never fails over an entry whose cat is empty or absent, it
\* leaves that entry out and stores the other entries of the call.
C8_StoredEntriesHaveCat == [][C8_Step]_vars

\* a sequence whose first entry has an empty cat: only the second is stored
C8_Witness ==
    /\ call.op = "google_category"
    /\ call.args[1] = List(<<Entry(Str(""), Design), Entry(Arts, Design)>>)
    /\ raised = ""
    /\ Stored(self)[Len(Stored(self))] = Entry(Arts, Design)
    /\ \A i \in 1..Len(Stored(self)) : Stored(self)[i] # Entry(Str(""), Design)

---------------------------------------------------------------------------
(* Claims on the whole extension (Spec) *)

Order ==
    <<QName("author"), QName("block"), QName("category"), QName("image"),
      QName("explicit"), QName("complete"), QName("new-feed-url"),
      QName("owner"), QName("subtitle"), QName("summary")>>

Rank(tag) == CHOOSE i \in 1..Len(Order) : Order[i] = tag

Count(elems, tag) == Cardinality({i \in 1..Len(elems) : elems[i].tag = tag})

One(b) == IF b THEN 1 ELSE 0

DistinctCats(s) == {Get(Stored(s)[k], "cat") : k \in 1..Len(Stored(s))}

\* what a render appends for the fields whose presence the claim and its
\* amendment agree on, and the order of all of it
RenderedInOrder(elems) ==
    /\ \A i \in 1..Len(elems) : \E r \in 1..Len(Order) : Order[r] = elems[i].tag
    /\ \A i, j \in 1..Len(elems) :
          i < j => Rank(elems[i].tag) <= Rank(elems[j].tag)
    /\ Count(elems, QName("block")) = One(~IsNone(self.google_block))
    /\ \A i \in 1..Len(elems) :
          elems[i].tag = QName("block")
            => elems[i].text = (IF self.google_block = True
                                THEN Str("yes") ELSE Str("no"))
    /\ Count(elems, QName("category")) = Cardinality(DistinctCats(self))
    /\ Count(elems, QName("explicit"))
          = One(self.google_explicit \in {Str("yes"), Str("no"), Str("clean")})
    /\ Count(elems, QName("complete"))
          = One(self.google_complete \in {Str("yes"), Str("no")})

\* C4 as claimed: extend_rss on a fresh channel appends exactly one top-level
\* element for each field that is set (non-absent) and none for an absent
\* one, in the order author, block, categories, image, explicit, complete,
\* new-feed-url, owner, subtitle, summary (explicit only for yes/no/clean,
\* complete only for yes/no, block "yes" for true and "no" for false).
C4_OneElementPerSetField ==
    OnFreshFeed =>
        /\ RenderedInOrder(Appended)
        /\ Count(Appended, QName("author")) = One(~IsNone(self.google_author))
        /\ Count(Appended, QName("image")) = One(~IsNone(self.google_image))
        /\ Count(Appended, QName("new-feed-url"))
              = One(~IsNone(self.google_new_feed_url))
        /\ Count(Appended, QName("owner")) = One(~IsNone(self.google_owner))
        /\ Count(Appended, QName("subtitle")) = One(~IsNone(self.google_subtitle))
        /\ Count(Appended, QName("summary")) = One(~IsNone(self.google_summary))

\* C4 amended: extend_rss on a fresh channel appends exactly one top-level
\* element for each field that holds a non-empty value and none for a field
\* that is absent or holds the empty string, in the order author, block,
\* categories, image, explicit, complete, new-feed-url, owner, subtitle,
\* summary (block for any set value, "yes" for true and "no" for false;
\* explicit only for yes/no/clean; complete only for yes/no).
C4_OneElementPerNonEmptyField ==
    OnFreshFeed =>
        /\ RenderedInOrder(Appended)
        /\ Count(Appended, QName("author")) = One(Truthy(self.google_author))
        /\ Count(Appended, QName("image")) = One(Truthy(self.google_image))
        /\ Count(Appended, QName("new-feed-url"))
              = One(Truthy(self.google_new_feed_url))
        /\ Count(Appended, QName("owner")) = One(Truthy(self.google_owner))
        /\ Count(Appended, QName("subtitle")) = One(Truthy(self.google_subtitle))
        /\ Count(Appended, QName("summary")) = One(Truthy(self.google_summary))

\* a render with every field set, two categories and block false
C4_Witness ==
    /\ OnFreshFeed
    /\ Len(Appended) = 11
    /\ self.google_block = False

Fields == DOMAIN NewExtension

NoArgument ==
    /\ call.op \in Fields
    /\ IsNone(call.args[1])
    /\ call.op = "google_category" => ~Truthy(call.args[3])

C10_Step ==
    /\ \A f \in Fields : f # call'.op => self'[f] = self[f]
    /\ NoArgument' => self' = self
    /\ raised' # "" => self' = self
    /\ call'.op \in {"extend_rss", "extend_ns"} => self' = self

\* C10: every accessor call, successful or failing, changes at most its own
\* field and leaves the other nine as they were; an accessor called with no
\* argument changes no field; extend_rss and extend_ns change no field.
C10_Frame == [][C10_Step]_vars

\* a failing accessor call on an instance whose other fields are set
C10_Witness ==
    /\ call.op = "google_explicit"
    /\ raised = "ValueError"
    /\ ~IsNone(self.google_subtitle)
    /\ ~IsNone(self.google_summary)
    /\ ~IsNone(self.google_category)

====
